---- MODULE Spec2Model ----
(***************************************************************************)
(* Staged ETL pipeline of Prisme (src/ETL.py): universe resolution,        *)
(* extraction, raw / interim / processed tiers, per-instrument failure     *)
(* isolation.  The data provider (yfinance) and the file system are the    *)
(* environment; pandas frames are records of an index, a column list and   *)
(* rows of cells.                                                          *)
(***************************************************************************)
EXTENDS Integers, Sequences, FiniteSets, TLC

(* ---------------------------------------------------------------- bounds *)
\* number of runs of run_etl_for_universe in one behaviour
MaxRuns == 2
\* number of times the environment (provider answers, failing writes) changes
MaxChanges == 1
\* longest price index the wide provider answers carry
MaxRows == 2
\* largest instant (in hours) of a provider timestamp
MaxInstant == 2

(* ------------------------------------------------------- python helpers *)
None == "None"

RECURSIVE SeqToSet(_)
SeqToSet(s) == IF s = <<>> THEN {} ELSE {Head(s)} \cup SeqToSet(Tail(s))

\* position of the first occurrence of x in s, 0 when absent
RECURSIVE IndexOf(_, _)
IndexOf(s, x) ==
    IF s = <<>> THEN 0
    ELSE IF Head(s) = x THEN 1
    ELSE LET r == IndexOf(Tail(s), x) IN IF r = 0 THEN 0 ELSE r + 1

EmptyDict == [k \in {} |-> "v"]

(* ------------------------------------------------------------ constants *)
KEYS_TO_KEEP ==
    << "symbol", "shortName", "longName", "fundFamily", "legalType",
       "currency", "netAssets", "navPrice", "regularMarketPrice",
       "ytdReturn", "threeYearAverageReturn", "fiveYearAverageReturn",
       "beta3Year", "yield", "dividendYield",
       "fiftyTwoWeekLow", "fiftyTwoWeekHigh" >>

\* the dict literal of load_universe, in insertion order
DefaultUniverse ==
    << [name |-> "S&P500_PEA",    ticker |-> "PE500.PA"],
       [name |-> "NASDAQ_PEA",    ticker |-> "PUST.PA"],
       [name |-> "CAC40_ETF",     ticker |-> "C40.PA"],
       [name |-> "EMERGING_PEA",  ticker |-> "PAEEM.PA"],
       [name |-> "EUROSTOXX_ETF", ticker |-> "C50.PA"] >>

PriceColumns == << "Open", "High", "Low", "Close", "Volume" >>

(* ------------------------------------------- configuration files on disk *)
\* the files os.path.exists finds
ConfigFiles ==
    {"abc.json", "/etc/abc.json", "one.json", "noticker.json", "bad.json"}

\* the values of the --config argument
ConfigPaths == {None, "", "missing.json"} \cup ConfigFiles

\* json.load of a configuration file: the parsed top-level object as the
\* sequence of its entries, or a parse error
JsonLoad(path) ==
    IF path \in {"abc.json", "/etc/abc.json"} THEN
        [ok |-> TRUE,
         data |-> << [name |-> "A", product |-> [ticker |-> "TA"]],
                     [name |-> "B", product |-> [ticker |-> "TB"]],
                     [name |-> "C", product |-> [ticker |-> "TC"]] >>]
    ELSE IF path = "one.json" THEN
        [ok |-> TRUE,
         data |-> << [name |-> "A", product |-> [ticker |-> "TA"]] >>]
    ELSE IF path = "noticker.json" THEN
        [ok |-> TRUE,
         data |-> << [name |-> "A", product |-> [ticker |-> "TA"]],
                     [name |-> "B", product |-> [isin |-> "FR0"]],
                     [name |-> "C", product |-> [ticker |-> "TC"]] >>]
    ELSE [ok |-> FALSE, data |-> <<>>]

\* os.path.exists(config_path)
PathExists(path) == path \in ConfigFiles

\* mutant: entries without a ticker are skipped, an unreadable document
\* falls back to the default universe
load_universe_Skip(config_path) ==
    IF config_path # None /\ config_path # "" /\ PathExists(config_path)
       /\ JsonLoad(config_path).ok THEN
        LET doc == JsonLoad(config_path)
            keep == SelectSeq(doc.data,
                              LAMBDA e : "ticker" \in DOMAIN e.product)
        IN  [exc |-> None,
             value |-> [i \in 1..Len(keep) |->
                           [name   |-> keep[i].name,
                            ticker |-> keep[i].product.ticker]]]
    ELSE [exc |-> None, value |-> DefaultUniverse]

\* mutant: a path that does not exist is an error
load_universe_Strict(config_path) ==
    IF config_path # None /\ config_path # "" THEN
        IF ~PathExists(config_path)
        THEN [exc |-> "FileNotFoundError", value |-> <<>>]
        ELSE LET doc == JsonLoad(config_path) IN
             IF ~doc.ok THEN [exc |-> "JSONDecodeError", value |-> <<>>]
             ELSE IF \E i \in 1..Len(doc.data) :
                         "ticker" \notin DOMAIN doc.data[i].product
                  THEN [exc |-> "KeyError", value |-> <<>>]
             ELSE [exc |-> None,
                   value |-> [i \in 1..Len(doc.data) |->
                                 [name   |-> doc.data[i].name,
                                  ticker |-> doc.data[i].product.ticker]]]
    ELSE [exc |-> None, value |-> DefaultUniverse]

\* load_universe: [exc |-> None, value |-> the mapping] or the exception
load_universe(config_path) ==
    IF config_path # None /\ config_path # "" /\ PathExists(config_path) THEN
        LET doc == JsonLoad(config_path) IN
        IF ~doc.ok THEN [exc |-> "JSONDecodeError", value |-> <<>>]
        ELSE IF \E i \in 1..Len(doc.data) :
                    "ticker" \notin DOMAIN doc.data[i].product
             THEN [exc |-> "KeyError", value |-> <<>>]
        ELSE [exc |-> None,
              value |-> [i \in 1..Len(doc.data) |->
                            [name   |-> doc.data[i].name,
                             ticker |-> doc.data[i].product.ticker]]]
    ELSE [exc |-> None, value |-> DefaultUniverse]

(* ------------------------------------------------------- pandas frames *)
\* a DataFrame: index (instants when tz-aware, wall-clock hours when naive)
\* and its name (the provider names its DatetimeIndex "Date"), column
\* labels, and one row of cells per index entry
MkFrame(tz, isdt, index, columns) ==
    [kind |-> "frame", tz |-> tz, isdt |-> isdt,
     iname |-> IF isdt THEN "Date" ELSE None, index |-> index,
     columns |-> columns,
     rows |-> [i \in 1..Len(index) |->
                 [j \in 1..Len(columns) |-> <<i, columns[j]>>]]]

\* Python None where a frame is expected
NoneDF ==
    [kind |-> "none", tz |-> FALSE, isdt |-> TRUE, iname |-> None,
     index |-> <<>>,
     columns |-> <<>>, rows |-> <<>>]

\* pd.DataFrame()
EmptyDF == MkFrame(FALSE, FALSE, <<>>, <<>>)

\* DataFrame.empty: some axis has length 0
IsEmpty(df) == Len(df.index) = 0 \/ Len(df.columns) = 0

\* offset of the provider's zone (Europe/Paris) at an instant: summer time
\* ends between instant 1 and instant 2
UtcOffset(t) == IF t < 2 THEN 2 ELSE 1

\* mutant: tz_convert(None), the zone is dropped from the UTC instants
TzLocalizeNone_Utc(df) == [df EXCEPT !.tz = FALSE]

\* df.index = df.index.tz_localize(None): wall-clock time, zone dropped
TzLocalizeNone(df) ==
    [df EXCEPT !.tz = FALSE,
               !.index = [i \in 1..Len(df.index) |->
                            df.index[i] + UtcOffset(df.index[i])]]

\* df[["Open", "High", "Low", "Close", "Volume"]]
SelectColumns(df, cols) ==
    [df EXCEPT !.columns = cols,
               !.rows = [i \in 1..Len(df.index) |->
                           [j \in 1..Len(cols) |->
                               df.rows[i][IndexOf(df.columns, cols[j])]]]]

\* json.dump accepts the document
Serializable(doc) == \A k \in DOMAIN doc : doc[k] # "OBJ"

(* -------------------------------------------------------- transformers *)
\* mutant: no .copy(), the timezone is stripped from the caller's frame
build_interim_from_raw_InPlace(df_history, asset_info, df_div) ==
    IF ~IsEmpty(df_history) /\ ~df_history.isdt THEN
        [exc |-> "AttributeError", hist |-> NoneDF, info |-> EmptyDict,
         div |-> NoneDF, source |-> df_history]
    ELSE IF df_div.kind # "none" /\ ~IsEmpty(df_div) /\ ~df_div.isdt THEN
        [exc |-> "AttributeError", hist |-> NoneDF, info |-> EmptyDict,
         div |-> NoneDF, source |-> df_history]
    ELSE
        [exc  |-> None,
         hist |-> IF ~IsEmpty(df_history) /\ df_history.tz
                  THEN TzLocalizeNone(df_history) ELSE df_history,
         info |-> asset_info,
         div  |-> IF df_div.kind # "none" /\ ~IsEmpty(df_div)
                  THEN (IF df_div.tz THEN TzLocalizeNone(df_div) ELSE df_div)
                  ELSE NoneDF,
         source |-> IF ~IsEmpty(df_history) /\ df_history.tz
                    THEN TzLocalizeNone(df_history) ELSE df_history]

\* build_interim_from_raw; source is the caller's df_history after the
\* call (the function works on df_history.copy())
build_interim_from_raw(df_history, asset_info, df_div) ==
    IF ~IsEmpty(df_history) /\ ~df_history.isdt THEN
        [exc |-> "AttributeError", hist |-> NoneDF, info |-> EmptyDict,
         div |-> NoneDF, source |-> df_history]
    ELSE IF df_div.kind # "none" /\ ~IsEmpty(df_div) /\ ~df_div.isdt THEN
        [exc |-> "AttributeError", hist |-> NoneDF, info |-> EmptyDict,
         div |-> NoneDF, source |-> df_history]
    ELSE
        [exc  |-> None,
         hist |-> IF ~IsEmpty(df_history) /\ df_history.tz
                  THEN TzLocalizeNone(df_history) ELSE df_history,
         info |-> asset_info,
         div  |-> IF df_div.kind # "none" /\ ~IsEmpty(df_div)
                  THEN (IF df_div.tz THEN TzLocalizeNone(df_div) ELSE df_div)
                  ELSE NoneDF,
         source |-> df_history]

\* mutant: the provider's other fields are kept next to the allow-list
CleanInfo_KeepAll(asset_info) ==
    [k \in SeqToSet(KEYS_TO_KEEP) \cup DOMAIN asset_info |->
        IF k \in DOMAIN asset_info THEN asset_info[k] ELSE None]

\* the info half of transform_history_and_info
CleanInfo(asset_info) ==
    [k \in SeqToSet(KEYS_TO_KEEP) |->
        IF k \in DOMAIN asset_info THEN asset_info[k] ELSE None]

\* mutant: no projection, every column of the source goes through
transform_history_and_info_KeepAll(df_history, asset_info) ==
    IF IsEmpty(df_history) THEN
        [exc |-> "ValueError", clean |-> NoneDF, info |-> EmptyDict]
    ELSE IF ~df_history.isdt THEN
        [exc |-> "AttributeError", clean |-> NoneDF, info |-> EmptyDict]
    ELSE
        [exc   |-> None,
         clean |-> IF df_history.tz THEN TzLocalizeNone(df_history)
                   ELSE df_history,
         info  |-> CleanInfo(asset_info)]

\* transform_history_and_info
transform_history_and_info(df_history, asset_info) ==
    IF IsEmpty(df_history) THEN
        [exc |-> "ValueError", clean |-> NoneDF, info |-> EmptyDict]
    ELSE IF ~df_history.isdt THEN
        [exc |-> "AttributeError", clean |-> NoneDF, info |-> EmptyDict]
    ELSE IF \E j \in 1..Len(PriceColumns) :
                IndexOf(df_history.columns, PriceColumns[j]) = 0 THEN
        [exc |-> "KeyError", clean |-> NoneDF, info |-> EmptyDict]
    ELSE
        [exc   |-> None,
         clean |-> SelectColumns(
                     IF df_history.tz THEN TzLocalizeNone(df_history)
                     ELSE df_history, PriceColumns),
         info  |-> CleanInfo(asset_info)]

\* transform_dividends
transform_dividends(df_div) ==
    IF df_div.kind = "none" \/ IsEmpty(df_div) THEN
        [exc |-> None, value |-> NoneDF]
    ELSE IF ~df_div.isdt THEN [exc |-> "AttributeError", value |-> NoneDF]
    ELSE IF Len(df_div.columns) # 1 THEN
        [exc |-> "ValueError", value |-> NoneDF]
    ELSE
        [exc |-> None,
         value |-> [(IF df_div.tz THEN TzLocalizeNone(df_div) ELSE df_div)
                        EXCEPT !.columns = << "Dividends" >>]]

(* ---------------------------------------------------------- file system *)
\* the characters of a string of the model (TLC strings are atoms)
Chars(str) ==
    IF str = "S&P500_PEA" THEN
        << "S", "&", "P", "5", "0", "0", "_", "P", "E", "A" >>
    ELSE IF str = "NASDAQ_PEA" THEN
        << "N", "A", "S", "D", "A", "Q", "_", "P", "E", "A" >>
    ELSE IF str = "CAC40_ETF" THEN
        << "C", "A", "C", "4", "0", "_", "E", "T", "F" >>
    ELSE IF str = "EMERGING_PEA" THEN
        << "E", "M", "E", "R", "G", "I", "N", "G", "_", "P", "E", "A" >>
    ELSE IF str = "EUROSTOXX_ETF" THEN
        << "E", "U", "R", "O", "S", "T", "O", "X", "X", "_", "E", "T", "F" >>
    ELSE IF str = "A" THEN
        << "A" >>
    ELSE IF str = "B" THEN
        << "B" >>
    ELSE IF str = "C" THEN
        << "C" >>
    ELSE IF str = "_raw_prices.csv" THEN
        << "_", "r", "a", "w", "_", "p", "r", "i", "c", "e", "s", ".", "c",
           "s", "v" >>
    ELSE IF str = "_raw_infos.json" THEN
        << "_", "r", "a", "w", "_", "i", "n", "f", "o", "s", ".", "j", "s",
           "o", "n" >>
    ELSE IF str = "_prices_interim.csv" THEN
        << "_", "p", "r", "i", "c", "e", "s", "_", "i", "n", "t", "e", "r",
           "i", "m", ".", "c", "s", "v" >>
    ELSE IF str = "_infos_interim.json" THEN
        << "_", "i", "n", "f", "o", "s", "_", "i", "n", "t", "e", "r", "i",
           "m", ".", "j", "s", "o", "n" >>
    ELSE IF str = "_dividends_interim.csv" THEN
        << "_", "d", "i", "v", "i", "d", "e", "n", "d", "s", "_", "i", "n",
           "t", "e", "r", "i", "m", ".", "c", "s", "v" >>
    ELSE IF str = "_data.parquet" THEN
        << "_", "d", "a", "t", "a", ".", "p", "a", "r", "q", "u", "e", "t" >>
    ELSE IF str = "_infos.parquet" THEN
        << "_", "i", "n", "f", "o", "s", ".", "p", "a", "r", "q", "u", "e",
           "t" >>
    ELSE IF str = "_dividends.parquet" THEN
        << "_", "d", "i", "v", "i", "d", "e", "n", "d", "s", ".", "p", "a",
           "r", "q", "u", "e", "t" >>
    ELSE << str >>

\* mutant: every instrument's files go under one name
Path_Flat(dir, name, suffix) == [dir |-> dir, name |-> "A", suffix |-> suffix]

\* os.path.join(DIR, f"{name}{suffix}")
Path(dir, name, suffix) == [dir |-> dir, name |-> name, suffix |-> suffix]

\* the file name f"{name}{suffix}" as text
FileName(path) == Chars(path.name) \o Chars(path.suffix)

AbsentFile  == [st |-> "absent",  df |-> NoneDF, doc |-> EmptyDict]
PartialFile == [st |-> "partial", df |-> NoneDF, doc |-> EmptyDict]
FrameFile(df) == [st |-> "file", df |-> df,     doc |-> EmptyDict]
DocFile(doc)  == [st |-> "file", df |-> NoneDF, doc |-> doc]

\* a sink threads st = [fs, log, events, exc]; once exc is set the rest of
\* the function body is skipped
Emit(st, tag, name) ==
    IF st.exc # None THEN st
    ELSE [st EXCEPT !.log = Append(@, [tag |-> tag, name |-> name])]

\* the writes the environment makes fail, each leaving its file untouched
\* or truncated
Fault(path, effect) == [path |-> path, effect |-> effect]

FaultAt(faults, path) == \E f \in faults : f.path = path

\* mutant: the file is opened in append mode, rows pile up
WriteFile_Append(st, faults, path, file) ==
    IF st.exc # None THEN st
    ELSE IF FaultAt(faults, path) THEN
        [st EXCEPT !.exc = "OSError",
                   !.fs = IF Fault(path, "partial") \in faults
                          THEN [@ EXCEPT ![path] = PartialFile] ELSE @,
                   !.events = Append(@, [op |-> "write", target |-> path,
                                         ok |-> FALSE])]
    ELSE [st EXCEPT
            !.fs = [@ EXCEPT ![path] =
                      IF @.st = "file" /\ file.df.kind = "frame"
                      THEN FrameFile([file.df EXCEPT
                                        !.index = st.fs[path].df.index \o @,
                                        !.rows = st.fs[path].df.rows \o @])
                      ELSE file],
            !.events = Append(@, [op |-> "write", target |-> path,
                                  ok |-> TRUE])]

\* open(path, "w") and write: the write that the environment makes fail
\* raises OSError and leaves the file untouched or truncated
WriteFile(st, faults, path, file) ==
    IF st.exc # None THEN st
    ELSE IF FaultAt(faults, path) THEN
        [st EXCEPT !.exc = "OSError",
                   !.fs = IF Fault(path, "partial") \in faults
                          THEN [@ EXCEPT ![path] = PartialFile] ELSE @,
                   !.events = Append(@, [op |-> "write", target |-> path,
                                         ok |-> FALSE])]
    ELSE [st EXCEPT !.fs = [@ EXCEPT ![path] = file],
                    !.events = Append(@, [op |-> "write", target |-> path,
                                          ok |-> TRUE])]

\* with open(path, "w") as f: json.dump(doc, f): the file is truncated
\* before json.dump raises TypeError on a value it cannot encode
WriteJson(st, faults, path, doc) ==
    IF st.exc = None /\ ~FaultAt(faults, path) /\ ~Serializable(doc) THEN
        [st EXCEPT !.exc = "TypeError",
                   !.fs = [@ EXCEPT ![path] = PartialFile],
                   !.events = Append(@, [op |-> "write", target |-> path,
                                         ok |-> FALSE])]
    ELSE WriteFile(st, faults, path, DocFile(doc))

(* ---------------------------------------------------------------- sinks *)
\* save_raw
save_raw(st, faults, name, df_hist, info) ==
    LET s1 == IF ~IsEmpty(df_hist)
              THEN Emit(WriteFile(st, faults,
                                  Path("raw", name, "_raw_prices.csv"),
                                  FrameFile(df_hist)), "RAW_PRICES", name)
              ELSE Emit(st, "WARN", name)
        s2 == WriteJson(s1, faults, Path("raw", name, "_raw_infos.json"), info)
    IN  Emit(s2, "RAW_INFOS", name)

\* mutant: the interim tier drops the dividends
save_interim_NoDiv(st, faults, name, df_hist, df_info, df_div) ==
    LET s1 == IF ~IsEmpty(df_hist)
              THEN Emit(WriteFile(st, faults,
                                  Path("interim", name, "_prices_interim.csv"),
                                  FrameFile(df_hist)), "INTERIM_PRICES", name)
              ELSE st
    IN  Emit(WriteJson(s1, faults,
                       Path("interim", name, "_infos_interim.json"),
                       df_info), "INTERIM_INFOS", name)

\* save_interim
save_interim(st, faults, name, df_hist, df_info, df_div) ==
    LET s1 == IF ~IsEmpty(df_hist)
              THEN Emit(WriteFile(st, faults,
                                  Path("interim", name, "_prices_interim.csv"),
                                  FrameFile(df_hist)), "INTERIM_PRICES", name)
              ELSE st
        s2 == Emit(WriteJson(s1, faults,
                             Path("interim", name, "_infos_interim.json"),
                             df_info), "INTERIM_INFOS", name)
    IN  IF df_div.kind # "none" /\ ~IsEmpty(df_div)
        THEN Emit(WriteFile(s2, faults,
                            Path("interim", name, "_dividends_interim.csv"),
                            FrameFile(df_div)), "INTERIM_DIVS", name)
        ELSE s2

\* mutant: the dividends file is written whether or not there are dividends
load_processed_AlwaysDiv(st, faults, name, clean, info_clean, df_div) ==
    LET s1 == WriteFile(st, faults, Path("processed", name, "_data.parquet"),
                        FrameFile(clean))
        s2 == WriteFile(s1, faults, Path("processed", name, "_infos.parquet"),
                        DocFile(info_clean))
        s3 == WriteFile(s2, faults,
                        Path("processed", name, "_dividends.parquet"),
                        FrameFile(df_div))
    IN  Emit(s3, "PROCESSED", name)

\* load_processed
load_processed(st, faults, name, clean, info_clean, df_div) ==
    LET s1 == WriteFile(st, faults, Path("processed", name, "_data.parquet"),
                        FrameFile(clean))
        s2 == WriteFile(s1, faults, Path("processed", name, "_infos.parquet"),
                        DocFile(info_clean))
        s3 == IF df_div.kind # "none" /\ ~IsEmpty(df_div)
              THEN WriteFile(s2, faults,
                             Path("processed", name, "_dividends.parquet"),
                             FrameFile(df_div))
              ELSE s2
    IN  Emit(s3, "PROCESSED", name)

(* ---------------------------------------------------------- environment *)
DefaultTickers == {DefaultUniverse[i].ticker : i \in 1..Len(DefaultUniverse)}
DefaultNames   == {DefaultUniverse[i].name   : i \in 1..Len(DefaultUniverse)}
Tickers == DefaultTickers \cup {"TA", "TB", "TC"}
Names   == DefaultNames \cup {"A", "B", "C"}

Suffixes ==
    { <<"raw", "_raw_prices.csv">>, <<"raw", "_raw_infos.json">>,
      <<"interim", "_prices_interim.csv">>,
      <<"interim", "_infos_interim.json">>,
      <<"interim", "_dividends_interim.csv">>,
      <<"processed", "_data.parquet">>, <<"processed", "_infos.parquet">>,
      <<"processed", "_dividends.parquet">> }

AllPaths == {Path(x[1], n, x[2]) : x \in Suffixes, n \in Names}

YfColumns == PriceColumns \o << "Dividends", "Stock Splits" >>

\* what yf.Ticker(t) answers: the call that raises (if any), .history(),
\* .info and pd.DataFrame(.dividends)
Answer(raiseAt, history, info, dividends) ==
    [raiseAt |-> raiseAt, history |-> history, info |-> info,
     dividends |-> dividends]

DivFrame(tz, index) == MkFrame(tz, TRUE, index, << "Dividends" >>)

InfoOf(keys) ==
    [k \in keys |-> IF k = "symbol" THEN "v1"
                    ELSE IF k = "currency" THEN "v2"
                    ELSE IF k = "zip" THEN "v3" ELSE "OBJ"]

AFull    == Answer("none", MkFrame(TRUE, TRUE, <<0, 2>>, YfColumns),
                   InfoOf({"symbol", "currency", "zip"}), DivFrame(TRUE, <<0>>))
ANoDiv   == Answer("none", MkFrame(FALSE, TRUE, <<1, 2>>, PriceColumns),
                   InfoOf({"symbol"}), DivFrame(FALSE, <<>>))
AEmpty   == Answer("none", MkFrame(FALSE, TRUE, <<>>, YfColumns),
                   EmptyDict, DivFrame(FALSE, <<>>))
AMissing == Answer("none",
                   MkFrame(TRUE, TRUE, <<0, 2>>, <<"Open", "High", "Low", "Close">>),
                   InfoOf({"currency"}), DivFrame(TRUE, <<2>>))
ADst     == Answer("none", MkFrame(TRUE, TRUE, <<0, 1>>, YfColumns),
                   InfoOf({"zip"}), DivFrame(TRUE, <<>>))
ABadInfo == Answer("none", MkFrame(FALSE, TRUE, <<1, 2>>, PriceColumns),
                   InfoOf({"symbol", "companyOfficers"}), DivFrame(FALSE, <<>>))
ABadIndex == Answer("none", MkFrame(FALSE, FALSE, <<0, 1>>, PriceColumns),
                    InfoOf({"symbol"}), DivFrame(FALSE, <<>>))
ARaise(at) == Answer(at, NoneDF, EmptyDict, NoneDF)

TickerOrder ==
    << "TA", "TB", "TC", "PE500.PA", "PUST.PA", "C40.PA", "PAEEM.PA", "C50.PA" >>

\* the provider's answer to each ticker (in TickerOrder), the failing
\* writes, and whether the working directory is the project root (the
\* directory above scripts/)
Env(answers, faults, at_root) ==
    [answers |-> [t \in Tickers |-> answers[IndexOf(TickerOrder, t)]],
     faults |-> faults, at_root |-> at_root]

\* the provider answers and disk conditions a behaviour draws from
Envs ==
    { Env(<< AFull, AFull, AMissing,
             AFull, AFull, AFull, AFull, AFull >>, {}, TRUE),
      Env(<< ANoDiv, ARaise("history"), AFull,
             AFull, ARaise("info"), AEmpty, ARaise("dividends"), ANoDiv >>, {},
          FALSE),
      Env(<< AEmpty, ABadInfo, ABadIndex,
             ADst, AMissing, AFull, ABadInfo, AFull >>,
          { Fault(Path("raw", "A", "_raw_infos.json"), "untouched"),
            Fault(Path("raw", "EMERGING_PEA", "_raw_infos.json"),
                  "untouched") }, TRUE),
      Env(<< AFull, AFull, AFull,
             AFull, AFull, AFull, AFull, AFull >>,
          { Fault(Path("processed", "A", "_infos.parquet"), "partial"),
            Fault(Path("interim", "B", "_prices_interim.csv"), "untouched"),
            Fault(Path("raw", "C", "_raw_prices.csv"), "partial"),
            Fault(Path("raw", "S&P500_PEA", "_raw_infos.json"), "partial"),
            Fault(Path("processed", "CAC40_ETF", "_data.parquet"), "untouched"),
            Fault(Path("interim", "EUROSTOXX_ETF", "_dividends_interim.csv"),
                  "partial") }, FALSE) }

(* ---------------------------------------------------------------- state *)
VARIABLES
    env,            \* provider answers and failing writes in force
    fs,             \* the files under data/raw, data/interim, data/processed
    dirs,           \* the directories setup_directories has created
    pc,             \* position in run_etl_for_universe
    runs,           \* runs started so far
    changes,        \* environment changes so far
    config_path,    \* arguments of the current run
    period,
    tickers_map,    \* the resolved universe, in dict order
    idx,            \* position of the for loop in tickers_map
    escaped,        \* the exception that left run_etl_for_universe, or None
    log,            \* what the current run has printed
    events,         \* provider calls, transforms and file writes of the
                    \* current run, in order
    snapshot,       \* fs when the current run started; repeat: the run has
                    \* the universe and the environment of the run before
    conv,           \* the convert_to_parquet script: position, files of
                    \* the glob not yet visited, files visited, counter,
                    \* the exception that ended it, fs when it started
    df_history, asset_info, df_div_raw,
    df_hist_interim, df_info_interim, df_div_interim,
    df_clean, df_info_clean, df_div_processed

locals == << df_history, asset_info, df_div_raw, df_hist_interim,
             df_info_interim, df_div_interim, df_clean, df_info_clean,
             df_div_processed >>

vars == << env, fs, dirs, pc, runs, changes, config_path, period,
           tickers_map, idx, escaped, log, events, snapshot, conv, locals >>

Periods == {"5y", "max"}

\* the (config_path, period) pairs the runs are started with
RunArgs ==
    { <<None, "5y">>, <<"", "max">>, <<"missing.json", "5y">>,
      <<"abc.json", "5y">>, <<"/etc/abc.json", "max">>,
      <<"noticker.json", "5y">>, <<"bad.json", "max">> }

WideArgs == { <<"one.json", "5y">>, <<"one.json", "max">> }

name_ == tickers_map[idx].name
ticker_symbol == tickers_map[idx].ticker

InitRest ==
    /\ fs = [p \in AllPaths |-> AbsentFile]
    /\ dirs = {}
    /\ pc = "idle"
    /\ runs = 0
    /\ changes = 0
    /\ config_path = None
    /\ period = "5y"
    /\ tickers_map = <<>>
    /\ idx = 0
    /\ escaped = None
    /\ log = <<>>
    /\ events = <<>>
    /\ snapshot = [fs |-> fs, changed |-> FALSE, repeat |-> FALSE]
    /\ conv = [pc |-> "idle", todo |-> {}, visited |-> {}, converted |-> 0,
               escaped |-> None, runs |-> 0, before |-> fs]
    /\ df_history = NoneDF /\ asset_info = EmptyDict /\ df_div_raw = NoneDF
    /\ df_hist_interim = NoneDF /\ df_info_interim = EmptyDict
    /\ df_div_interim = NoneDF
    /\ df_clean = NoneDF /\ df_info_clean = EmptyDict
    /\ df_div_processed = NoneDF

Init == env \in Envs /\ InitRest

ClearLocals ==
    /\ df_history' = NoneDF /\ asset_info' = EmptyDict /\ df_div_raw' = NoneDF
    /\ df_hist_interim' = NoneDF /\ df_info_interim' = EmptyDict
    /\ df_div_interim' = NoneDF
    /\ df_clean' = NoneDF /\ df_info_clean' = EmptyDict
    /\ df_div_processed' = NoneDF

\* the state a stage hands to its sinks
St == [fs |-> fs, log |-> log, events |-> events, exc |-> None]

Raised(exc) == [St EXCEPT !.exc = exc]

\* mutant: the handler logs and re-raises
ExceptException_Reraise(st) ==
    /\ log' = Append(st.log, [tag |-> "ERROR", name |-> name_])
    /\ idx' = idx
    /\ pc' = "raised"
    /\ escaped' = st.exc

\* mutant: the handler gives a failed instrument a second try
ExceptException_RetryOnce(st) ==
    /\ log' = Append(st.log, [tag |-> "ERROR", name |-> name_])
    /\ idx' = IF \E k \in 1..Len(st.log) :
                      st.log[k] = [tag |-> "ERROR", name |-> name_]
              THEN idx + 1 ELSE idx
    /\ pc' = "loop"
    /\ escaped' = escaped

\* mutant: the handler goes on without printing the failure
ExceptException_Silent(st) ==
    /\ log' = st.log
    /\ idx' = idx + 1
    /\ pc' = "loop"
    /\ escaped' = escaped

\* except Exception as e: print the failure, go on with the next instrument
ExceptException(st) ==
    /\ log' = Append(st.log, [tag |-> "ERROR", name |-> name_])
    /\ idx' = idx + 1
    /\ pc' = "loop"
    /\ escaped' = escaped

\* the end of one stage inside the try block
Stage(st, nextpc, nextidx) ==
    /\ fs' = st.fs
    /\ events' = st.events
    /\ IF st.exc # None THEN ExceptException(st)
       ELSE /\ log' = st.log
            /\ idx' = nextidx
            /\ pc' = nextpc
            /\ escaped' = escaped

(* -------------------------------------------------------------- actions *)
\* run_etl_for_universe up to the for loop: start banner,
\* setup_directories, load_universe (outside the try block)
StartRun(cp, per) ==
    /\ pc \in {"idle", "done", "raised"}
    /\ runs < MaxRuns
    /\ runs' = runs + 1
    /\ config_path' = cp
    /\ period' = per
    /\ dirs' = dirs \cup {"data", "data/raw", "data/interim", "data/processed"}
    /\ log' = << [tag |-> "START", name |-> ""] >>
    /\ events' = << [op |-> "load_universe",
                     target |-> Path("config", cp, ""), ok |-> TRUE] >>
    /\ LET u == load_universe(cp) IN
       IF u.exc # None
       THEN /\ escaped' = u.exc
            /\ pc' = "raised"
            /\ tickers_map' = <<>>
            /\ idx' = 0
       ELSE /\ escaped' = None
            /\ pc' = "loop"
            /\ tickers_map' = u.value
            /\ idx' = 1
    /\ snapshot' = [fs |-> fs, changed |-> FALSE,
                     repeat |-> /\ runs >= 1
                                /\ ~snapshot.changed
                                /\ load_universe(cp).value = tickers_map]
    /\ ClearLocals
    /\ UNCHANGED << conv, env, fs, changes >>

\* for name, ticker_symbol in tickers_map.items(): print the instrument
LoopHead ==
    /\ pc = "loop"
    /\ idx <= Len(tickers_map)
    /\ log' = Append(log, [tag |-> "PROCESSING", name |-> name_])
    /\ pc' = "extract"
    /\ ClearLocals
    /\ UNCHANGED << conv, env, fs, dirs, runs, changes, config_path, period,
                    snapshot, tickers_map, idx, escaped, events >>

\* the loop is exhausted: end banner
EndRun ==
    /\ pc = "loop"
    /\ idx > Len(tickers_map)
    /\ log' = Append(log, [tag |-> "END", name |-> ""])
    /\ pc' = "done"
    /\ UNCHANGED << conv, env, fs, dirs, runs, changes, config_path, period,
                    snapshot, tickers_map, idx, escaped, events, locals >>

\* asset.history(period=period), asset.info, asset.dividends
CallFor(op, ticker, per, ok) ==
    [op |-> op, target |-> Path("provider", ticker, per), ok |-> ok]

Call(op, ok) == CallFor(op, ticker_symbol, period, ok)

\* a transform of the instrument returned or raised
StageEventFor(op, name, ok) ==
    [op |-> op, target |-> Path("stage", name, ""), ok |-> ok]

StageEvent(op, ok) == StageEventFor(op, name_, ok)

\* mutant: a provider call that raises is tried a second time
ProviderCalls_Retry(a) ==
    IF a.raiseAt = "history"
    THEN << Call("history", FALSE), Call("history", FALSE) >>
    ELSE IF a.raiseAt = "info"
    THEN << Call("history", TRUE), Call("info", FALSE), Call("info", FALSE) >>
    ELSE IF a.raiseAt = "dividends"
    THEN << Call("history", TRUE), Call("info", TRUE),
            Call("dividends", FALSE), Call("dividends", FALSE) >>
    ELSE << Call("history", TRUE), Call("info", TRUE),
            Call("dividends", TRUE) >>

\* the provider calls extract_asset makes, in order, up to the one that raises
ProviderCalls(a) ==
    IF a.raiseAt = "history" THEN << Call("history", FALSE) >>
    ELSE IF a.raiseAt = "info"
    THEN << Call("history", TRUE), Call("info", FALSE) >>
    ELSE << Call("history", TRUE), Call("info", TRUE),
            Call("dividends", a.raiseAt = "none") >>

\* mutant: a provider error is swallowed and the facets come back empty
Extract_Swallow ==
    /\ pc = "extract"
    /\ LET a == env.answers[ticker_symbol]
           st == [St EXCEPT !.events = events \o ProviderCalls(a)]
       IN  /\ Stage(st, "save_raw", idx)
           /\ df_history' = a.history
           /\ asset_info' = a.info
           /\ df_div_raw' = a.dividends
    /\ UNCHANGED << conv, env, dirs, runs, changes, config_path, period,
                    snapshot,
                    tickers_map, df_hist_interim, df_info_interim,
                    df_div_interim, df_clean, df_info_clean,
                    df_div_processed >>

\* df_history, asset_info, df_div_raw = extract_asset(ticker_symbol, period)
Extract ==
    /\ pc = "extract"
    /\ LET a == env.answers[ticker_symbol]
           st == [St EXCEPT !.events = events \o ProviderCalls(a),
                            !.exc = IF a.raiseAt = "none" THEN None
                                    ELSE "ProviderError"]
       IN  /\ Stage(st, "save_raw", idx)
           /\ df_history' = a.history
           /\ asset_info' = a.info
           /\ df_div_raw' = a.dividends
    /\ UNCHANGED << conv, env, dirs, runs, changes, config_path, period,
                    snapshot,
                    tickers_map, df_hist_interim, df_info_interim,
                    df_div_interim, df_clean, df_info_clean,
                    df_div_processed >>

\* mutant: the raw tier is not written before the interim stages start
SaveRaw_Deferred ==
    /\ pc = "save_raw"
    /\ IF IsEmpty(df_history)
       THEN Stage(St, "loop", idx + 1)
       ELSE Stage(St, "build_interim", idx)
    /\ UNCHANGED << conv, env, dirs, runs, changes, config_path, period,
                    snapshot,
                    tickers_map, locals >>

\* mutant: an instrument without prices skips the interim tier only
SaveRaw_SkipInterimOnly ==
    /\ pc = "save_raw"
    /\ LET st == save_raw(St, env.faults, name_, df_history, asset_info)
       IN  IF IsEmpty(df_history)
           THEN Stage(st, "transform", idx)
           ELSE Stage(st, "build_interim", idx)
    /\ UNCHANGED << conv, env, dirs, runs, changes, config_path, period,
                    snapshot,
                    tickers_map, locals >>

\* mutant: the orchestrator does not skip an instrument without prices
SaveRaw_NoContinue ==
    /\ pc = "save_raw"
    /\ Stage(save_raw(St, env.faults, name_, df_history, asset_info),
             "build_interim", idx)
    /\ UNCHANGED << conv, env, dirs, runs, changes, config_path, period,
                    snapshot,
                    tickers_map, locals >>

\* save_raw(name, df_history, asset_info); if df_history.empty: continue
SaveRaw ==
    /\ pc = "save_raw"
    /\ LET st == save_raw(St, env.faults, name_, df_history, asset_info)
       IN  IF IsEmpty(df_history)
           THEN Stage(st, "loop", idx + 1)
           ELSE Stage(st, "build_interim", idx)
    /\ UNCHANGED << conv, env, dirs, runs, changes, config_path, period,
                    snapshot,
                    tickers_map, locals >>

\* ... = build_interim_from_raw(df_history, asset_info, df_div_raw)
BuildInterim ==
    /\ pc = "build_interim"
    /\ LET r == build_interim_from_raw(df_history, asset_info, df_div_raw)
       IN  /\ Stage([Raised(r.exc) EXCEPT
                        !.events = Append(@, StageEvent("build_interim",
                                                        r.exc = None))],
                    "save_interim", idx)
           /\ df_hist_interim' = r.hist
           /\ df_info_interim' = r.info
           /\ df_div_interim' = r.div
           /\ df_history' = r.source
    /\ UNCHANGED << conv, env, dirs, runs, changes, config_path, period,
                    snapshot,
                    tickers_map, asset_info, df_div_raw,
                    df_clean, df_info_clean, df_div_processed >>

\* save_interim(name, df_hist_interim, df_info_interim, df_div_interim)
SaveInterim ==
    /\ pc = "save_interim"
    /\ Stage(save_interim(St, env.faults, name_, df_hist_interim,
                          df_info_interim, df_div_interim),
             "transform", idx)
    /\ UNCHANGED << conv, env, dirs, runs, changes, config_path, period,
                    snapshot,
                    tickers_map, locals >>

\* df_clean, df_info_clean = transform_history_and_info(df_hist_interim,
\* asset_info); df_div_processed = transform_dividends(df_div_interim if
\* df_div_interim is not None else pd.DataFrame())
Transform ==
    /\ pc = "transform"
    /\ LET r == transform_history_and_info(df_hist_interim, asset_info)
           d == transform_dividends(IF df_div_interim.kind # "none"
                                    THEN df_div_interim ELSE EmptyDF)
           e == IF r.exc # None THEN r.exc ELSE d.exc
       IN  /\ Stage([Raised(e) EXCEPT
                        !.events = Append(@, StageEvent("transform",
                                                        e = None))],
                    "load_processed", idx)
           /\ df_clean' = r.clean
           /\ df_info_clean' = r.info
           /\ df_div_processed' = IF r.exc # None THEN NoneDF ELSE d.value
    /\ UNCHANGED << conv, env, dirs, runs, changes, config_path, period,
                    snapshot,
                    tickers_map, df_history, asset_info, df_div_raw,
                    df_hist_interim, df_info_interim, df_div_interim >>

\* load_processed(name, df_clean, df_info_clean, df_div_processed)
LoadProcessed ==
    /\ pc = "load_processed"
    /\ Stage(load_processed(St, env.faults, name_, df_clean, df_info_clean,
                            df_div_processed),
             "loop", idx + 1)
    /\ UNCHANGED << conv, env, dirs, runs, changes, config_path, period,
                    snapshot,
                    tickers_map, locals >>

\* between two runs the provider's data and the disk's condition change
ProviderChange ==
    /\ pc \in {"idle", "done", "raised"}
    /\ changes < MaxChanges
    /\ runs < MaxRuns
    /\ changes' = changes + 1
    /\ env' \in Envs \ {env}
    /\ pc' = "idle"
    /\ snapshot' = [snapshot EXCEPT !.changed = TRUE]
    /\ UNCHANGED << conv, fs, dirs, runs, config_path, period, tickers_map,
                    idx, escaped, log, events, locals >>

Next ==
    \/ \E a \in RunArgs : StartRun(a[1], a[2])
    \/ LoopHead
    \/ Extract
    \/ SaveRaw
    \/ BuildInterim
    \/ SaveInterim
    \/ Transform
    \/ LoadProcessed
    \/ EndRun
    \/ ProviderChange

Spec == Init /\ [][Next]_vars

(* ------------------------------------------- wide provider answers *)
\* every index of at most MaxRows instants, sorted or not
Indexes == UNION {[1..k -> 0..MaxInstant] : k \in 0..MaxRows}

ColumnLists ==
    { PriceColumns, YfColumns,
      << "Open", "High", "Low", "Close" >>,
      << "High", "Low", "Close", "Volume", "Dividends" >>,
      << "Adj Close", "Volume", "Close", "Low", "High", "Open" >> }

WideInfos ==
    {InfoOf(K) : K \in SUBSET {"symbol", "currency", "zip"}}
        \cup {[k \in {"symbol", "zip"} |-> None]}

WideDividends ==
    {DivFrame(FALSE, <<>>), DivFrame(TRUE, <<0>>), DivFrame(FALSE, <<1, 2>>)}

WideAnswers ==
    {Answer("none", MkFrame(tz, TRUE, ix, cols), InfoOf({"symbol", "zip"}),
            DivFrame(TRUE, <<0>>)) :
        tz \in BOOLEAN, ix \in Indexes, cols \in ColumnLists}
    \cup
    {Answer("none", MkFrame(TRUE, TRUE, <<0, 2>>, YfColumns), info, div) :
        info \in WideInfos, div \in WideDividends}
    \cup
    {Answer("none", h, InfoOf({"symbol"}), DivFrame(FALSE, <<>>)) :
        h \in {EmptyDF, MkFrame(FALSE, FALSE, <<>>, YfColumns),
               MkFrame(FALSE, TRUE, <<1, 2>>, <<>>)}}

\* the provider answers every ticker alike and the disk does not fail
WideEnvs ==
    {[answers |-> [t \in Tickers |-> a], faults |-> {}, at_root |-> TRUE] :
        a \in WideAnswers}

InitWide == env \in WideEnvs /\ InitRest

NextWide ==
    \/ \E a \in WideArgs : StartRun(a[1], a[2])
    \/ LoopHead
    \/ Extract
    \/ SaveRaw
    \/ BuildInterim
    \/ SaveInterim
    \/ Transform
    \/ LoadProcessed
    \/ EndRun

SpecWide == InitWide /\ [][NextWide]_vars

TypeOK ==
    /\ pc \in {"idle", "loop", "extract", "save_raw", "build_interim",
               "save_interim", "transform", "load_processed", "done",
               "raised"}
    /\ runs \in 0..MaxRuns
    /\ idx \in 0..(Len(tickers_map) + 1)

(* ------------------------------------------------- vocabulary of claims *)
InRun == pc \notin {"idle", "done", "raised"}

Universe == 1..Len(tickers_map)

\* the iteration of instrument i of the current run is over
Finished(i) == pc # "idle" /\ i \in Universe /\ i < idx

AnswerOf(i) == env.answers[tickers_map[i].ticker]

Logged(tag, name) == \E k \in 1..Len(log) : log[k] = [tag |-> tag, name |-> name]

\* events of the current run that belong to instrument i
EventsOf(i) ==
    {k \in 1..Len(events) :
        events[k].target.name \in {tickers_map[i].name, tickers_map[i].ticker}}

\* some provider call, transform or write of instrument i raised
Failed(i) == \E k \in EventsOf(i) : ~events[k].ok

\* the current run wrote (or tried to write) the file
WriteTried(path) ==
    \E k \in 1..Len(events) : events[k].op = "write" /\ events[k].target = path

Written(path) ==
    \E k \in 1..Len(events) :
        events[k].op = "write" /\ events[k].target = path /\ events[k].ok

Exists(path) == fs[path].st = "file"

TierPaths(dir, name) == {p \in AllPaths : p.dir = dir /\ p.name = name}

InstrumentStep ==
    LoopHead \/ Extract \/ SaveRaw \/ BuildInterim \/ SaveInterim
        \/ Transform \/ LoadProcessed \/ EndRun

(* ------------------------------------------------------------------ C1 *)
\* C1: failure isolation.  Whatever stage of an instrument raises
\* (provider call, raw write, interim transform or write, processed
\* transform or write), the exception is caught and logged under the
\* instrument's name, the loop goes on to every later instrument, the run
\* can always take its next step and ends with the end banner; the only
\* exception that leaves run_etl_for_universe comes from universe
\* resolution, before any instrument is touched.
C1_FailureIsolation ==
    pc # "idle" =>
        /\ (escaped # None <=> pc = "raised")
        /\ (pc = "raised" => tickers_map = <<>> /\ Len(events) = 1)
        /\ \A i \in Universe :
              Finished(i) =>
                /\ Logged("PROCESSING", tickers_map[i].name)
                /\ \E k \in EventsOf(i) : events[k].op = "history"
                /\ (Failed(i) => Logged("ERROR", tickers_map[i].name))
        /\ (pc = "done" => /\ idx = Len(tickers_map) + 1
                           /\ log[Len(log)].tag = "END")
        /\ (InRun => ENABLED InstrumentStep)

\* a finished run in which an instrument failed and a later one was
\* processed to the end
C1_Witness ==
    /\ pc = "done"
    /\ \E i, j \in Universe :
          /\ i < j
          /\ Failed(i)
          /\ Logged("ERROR", tickers_map[i].name)
          /\ Logged("PROCESSED", tickers_map[j].name)

(* ------------------------------------------------------------------ C3 *)
\* C3: an instrument whose extracted price history is empty gets no raw
\* price file but a warning, its raw descriptive file is still written
\* (holding the document, the empty one included, unless that write itself
\* raises), no interim or processed transform runs and no interim or
\* processed file is written for it in that run, and nothing escapes.
C3_EmptyPrices ==
    \A i \in Universe :
        (Finished(i) /\ AnswerOf(i).raiseAt = "none"
                     /\ IsEmpty(AnswerOf(i).history)) =>
            LET n == tickers_map[i].name
                info == Path("raw", n, "_raw_infos.json")
            IN  /\ ~WriteTried(Path("raw", n, "_raw_prices.csv"))
                /\ Logged("WARN", n)
                /\ WriteTried(info)
                /\ (Written(info) => fs[info] = DocFile(AnswerOf(i).info))
                /\ (~Written(info) => Logged("ERROR", n))
                /\ \A k \in EventsOf(i) :
                      events[k].op \notin {"build_interim", "transform"}
                /\ \A p \in TierPaths("interim", n) \cup TierPaths("processed", n) :
                      ~WriteTried(p) /\ fs[p] = snapshot.fs[p]
                /\ escaped = None

\* an instrument with no prices and an empty descriptive document was
\* skipped after its raw descriptive file was written
C3_Witness ==
    \E i \in Universe :
        /\ Finished(i)
        /\ AnswerOf(i).raiseAt = "none"
        /\ IsEmpty(AnswerOf(i).history)
        /\ AnswerOf(i).info = EmptyDict
        /\ Written(Path("raw", tickers_map[i].name, "_raw_infos.json"))
        /\ Logged("WARN", tickers_map[i].name)

(* ------------------------------------------------------------------ C2 *)
Extracted(i) == AnswerOf(i).raiseAt = "none"

HasPrices(i) == Extracted(i) /\ ~IsEmpty(AnswerOf(i).history)

HasDividends(i) == Extracted(i) /\ ~IsEmpty(AnswerOf(i).dividends)

\* the price and descriptive files of the three tiers
PriceInfoPaths(n) ==
    { Path("raw", n, "_raw_prices.csv"), Path("raw", n, "_raw_infos.json"),
      Path("interim", n, "_prices_interim.csv"),
      Path("interim", n, "_infos_interim.json"),
      Path("processed", n, "_data.parquet"),
      Path("processed", n, "_infos.parquet") }

DividendPaths(n) ==
    { Path("interim", n, "_dividends_interim.csv"),
      Path("processed", n, "_dividends.parquet") }

\* every artifact the instrument's facets call for
ArtifactPaths(i) ==
    PriceInfoPaths(tickers_map[i].name)
        \cup (IF HasDividends(i) THEN DividendPaths(tickers_map[i].name)
              ELSE {})

\* a finished run over three instruments: extraction raised for the second
\* and gave non-empty prices for the first and the third
RunWithFailingB ==
    /\ pc = "done"
    /\ Len(tickers_map) = 3
    /\ ~Extracted(2)
    /\ HasPrices(1) /\ HasPrices(3)

\* C2 as stated: after such a run A and C have all their artifacts, B's
\* failure is logged, and no interim or processed artifact of B exists,
\* whatever earlier runs wrote.  (A and C are only held to it when none of
\* their own stages raised, which is the weakest reading of the claim.)
C2_Original ==
    RunWithFailingB =>
        /\ \A i \in {1, 3} :
              ~Logged("ERROR", tickers_map[i].name) =>
                  \A p \in ArtifactPaths(i) : Exists(p)
        /\ Logged("ERROR", tickers_map[2].name)
        /\ \A p \in TierPaths("interim", tickers_map[2].name)
                    \cup TierPaths("processed", tickers_map[2].name) :
              fs[p].st = "absent"

\* C2 amended: B's failure is logged and the run writes no artifact of B at
\* any tier, so B's files are exactly those the earlier runs left; A and C
\* have all their artifacts, written in that run, whenever none of their
\* own stages raises.
C2_Amended ==
    RunWithFailingB =>
        /\ Logged("ERROR", tickers_map[2].name)
        /\ \A p \in AllPaths :
              p.name = tickers_map[2].name =>
                  ~WriteTried(p) /\ fs[p] = snapshot.fs[p]
        /\ \A i \in {1, 3} :
              ~Logged("ERROR", tickers_map[i].name) =>
                  \A p \in ArtifactPaths(i) : Written(p) /\ Exists(p)

\* such a run, with A and C complete, while B keeps the processed files an
\* earlier run wrote
C2_Witness ==
    /\ RunWithFailingB
    /\ \A i \in {1, 3} : \A p \in ArtifactPaths(i) : Written(p)
    /\ Exists(Path("processed", tickers_map[2].name, "_data.parquet"))

(* ------------------------------------------------------------------ C4 *)
\* instrument i of a finished run had prices and no dividends
NoDividends(i) ==
    /\ pc = "done"
    /\ i \in Universe
    /\ HasPrices(i)
    /\ ~HasDividends(i)

\* C4 as stated: such an instrument has no dividend artifact at any tier
\* and has its price and descriptive artifacts at every tier, also after an
\* earlier run that saw dividends.  (The instrument is only held to it when
\* none of its stages raised, which is the weakest reading of the claim.)
C4_Original ==
    \A i \in Universe :
        (NoDividends(i) /\ ~Logged("ERROR", tickers_map[i].name)) =>
            /\ \A p \in DividendPaths(tickers_map[i].name) : fs[p].st = "absent"
            /\ \A p \in PriceInfoPaths(tickers_map[i].name) : Exists(p)

\* C4 amended: the run writes no dividend artifact for such an instrument at
\* any tier and leaves a dividend file of an earlier run as it was; its
\* price and descriptive artifacts are written at every tier whenever none
\* of its stages raises.
C4_Amended ==
    \A i \in Universe :
        NoDividends(i) =>
            /\ \A p \in DividendPaths(tickers_map[i].name) :
                  ~WriteTried(p) /\ fs[p] = snapshot.fs[p]
            /\ ~Logged("ERROR", tickers_map[i].name) =>
                  \A p \in PriceInfoPaths(tickers_map[i].name) :
                      Written(p) /\ Exists(p)

\* an instrument without dividends in this run, processed to the end, whose
\* dividend file of an earlier run is still there
C4_Witness ==
    \E i \in Universe :
        /\ NoDividends(i)
        /\ Logged("PROCESSED", tickers_map[i].name)
        /\ Exists(Path("processed", tickers_map[i].name, "_dividends.parquet"))

(* ------------------------------------------------------------------ C5 *)
ProcessedTier(f) == [p \in {q \in AllPaths : q.dir = "processed"} |-> f[p]]

\* the finished run had the universe, the provider answers and the disk
\* condition of the run before it
SecondOfTwo ==
    /\ pc = "done"
    /\ snapshot.repeat

\* C5: idempotence.  A run that repeats the previous run (same universe,
\* same provider answers, raising and empty ones included) leaves the
\* processed tier exactly as the previous run left it.
C5_Idempotent ==
    SecondOfTwo => ProcessedTier(fs) = ProcessedTier(snapshot.fs)

\* a repeated run that rewrote processed files, with an instrument that
\* raised or had no prices
C5_Witness ==
    /\ SecondOfTwo
    /\ \E i \in Universe : ~HasPrices(i)
    /\ \E i \in Universe :
          Written(Path("processed", tickers_map[i].name, "_data.parquet"))

(* ------------------------------------------------------------------ C6 *)
\* the configured document exists and is unreadable or has an entry
\* without a ticker field
BadDocument(path) ==
    /\ PathExists(path)
    /\ \/ ~JsonLoad(path).ok
       \/ \E i \in 1..Len(JsonLoad(path).data) :
             "ticker" \notin DOMAIN JsonLoad(path).data[i].product

\* C6: configuration errors are fatal and early.  With such a document the
\* run ends with the exception of load_universe leaving
\* run_etl_for_universe, no universe (not even a partial one), no provider
\* call, no file write, the files as they were.
C6_ConfigFatal ==
    (pc # "idle" /\ BadDocument(config_path)) =>
        /\ pc = "raised"
        /\ escaped \in {"JSONDecodeError", "KeyError"}
        /\ tickers_map = <<>>
        /\ \A k \in 1..Len(events) : events[k].op = "load_universe"
        /\ fs = snapshot.fs

\* a second run aborted on an entry without ticker, after a run that wrote
\* files
C6_Witness ==
    /\ pc = "raised"
    /\ escaped = "KeyError"
    /\ \E p \in AllPaths : Exists(p)

(* ------------------------------------------------------------------ C7 *)
\* C7: universe resolution.  Without a path, with the empty path or with a
\* path that does not exist the run gets the five default pairs and no
\* error; with a readable, well-formed document it gets one pair per entry,
\* in the document's order, and no default entry; load_universe is called
\* once and the universe stays what it returned while the run lasts.
C7_UniverseResolution ==
    pc # "idle" =>
        /\ (config_path \in {None, ""} \/ ~PathExists(config_path)) =>
              /\ pc # "raised"
              /\ Len(tickers_map) = 5
              /\ Cardinality({tickers_map[i].name : i \in Universe}) = 5
              /\ tickers_map = DefaultUniverse
        /\ (PathExists(config_path) /\ ~BadDocument(config_path)) =>
              LET data == JsonLoad(config_path).data IN
              /\ pc # "raised"
              /\ Len(tickers_map) = Len(data)
              /\ \A i \in Universe :
                    /\ tickers_map[i].name = data[i].name
                    /\ tickers_map[i].ticker = data[i].product.ticker
                    /\ tickers_map[i].name \notin DefaultNames
        /\ Cardinality({k \in 1..Len(events) :
                           events[k].op = "load_universe"}) = 1

\* a run over the default universe got to its end after a path that does
\* not exist was given
C7_Witness ==
    /\ pc = "done"
    /\ config_path = "missing.json"
    /\ Len(tickers_map) = 5
    /\ Logged("PROCESSED", "EUROSTOXX_ETF")

(* ------------------------------------------------------------------ C8 *)
ProcessedData(i)  == Path("processed", tickers_map[i].name, "_data.parquet")
ProcessedInfos(i) == Path("processed", tickers_map[i].name, "_infos.parquet")

LacksPriceColumn(df) ==
    \E j \in 1..Len(PriceColumns) :
        \A c \in 1..Len(df.columns) : df.columns[c] # PriceColumns[j]

\* C8: every processed price file has exactly the columns Open, High, Low,
\* Close, Volume in that order, each cell taken from the source column of
\* that name in the same row, whatever else the source carried; an
\* instrument whose non-empty price series lacks one of the five gets
\* through the raw and interim stages, fails at the processed transform, is
\* logged as failed and has no processed file written in that run.
C8_PriceProjection ==
    /\ \A p \in AllPaths :
          (p.dir = "processed" /\ p.suffix = "_data.parquet" /\ Exists(p)) =>
              /\ fs[p].df.columns = << "Open", "High", "Low", "Close", "Volume" >>
              /\ Len(fs[p].df.rows) = Len(fs[p].df.index)
              /\ \A r \in 1..Len(fs[p].df.rows) :
                    /\ Len(fs[p].df.rows[r]) = 5
                    /\ \A j \in 1..5 :
                          fs[p].df.rows[r][j] = <<r, fs[p].df.columns[j]>>
    /\ \A i \in Universe :
          (Finished(i) /\ HasPrices(i)
                       /\ LacksPriceColumn(AnswerOf(i).history)) =>
              /\ \E k \in EventsOf(i) :
                    events[k].op = "transform" /\ ~events[k].ok
              /\ \A k \in EventsOf(i) :
                    events[k].op # "transform" => events[k].ok
              /\ Logged("ERROR", tickers_map[i].name)
              /\ \A p \in TierPaths("processed", tickers_map[i].name) :
                    ~WriteTried(p)

\* a processed price file written from a source with other columns in
\* another order
C8_Witness ==
    \E i \in Universe :
        /\ Finished(i)
        /\ Written(ProcessedData(i))
        /\ AnswerOf(i).history.columns[1] = "Adj Close"
        /\ Len(fs[ProcessedData(i)].df.index) = MaxRows

(* ------------------------------------------------------------------ C9 *)
StrictlyIncreasing(ix) == \A k \in 1..(Len(ix) - 1) : ix[k] < ix[k + 1]

\* the provider's timestamps as wall-clock times of its zone
WallClock(df) ==
    [k \in 1..Len(df.index) |->
        IF df.tz THEN df.index[k] + UtcOffset(df.index[k]) ELSE df.index[k]]

\* instrument i had prices and its processed price file was written in the
\* current run
PricesProcessed(i) ==
    Finished(i) /\ HasPrices(i) /\ Written(ProcessedData(i))

\* C9 as stated: the index of the processed price file has no timezone and
\* is strictly increasing, whatever bars the provider returned.
C9_Original ==
    \A i \in Universe :
        PricesProcessed(i) =>
            /\ ~fs[ProcessedData(i)].df.tz
            /\ StrictlyIncreasing(fs[ProcessedData(i)].df.index)

\* C9 amended: the index of the processed price file has no timezone and
\* lists the provider's bars in the provider's order, each at its
\* wall-clock time; it is strictly increasing exactly when the provider's
\* wall-clock timestamps are.
C9_Amended ==
    \A i \in Universe :
        PricesProcessed(i) =>
            /\ ~fs[ProcessedData(i)].df.tz
            /\ fs[ProcessedData(i)].df.index = WallClock(AnswerOf(i).history)
            /\ StrictlyIncreasing(fs[ProcessedData(i)].df.index)
                  <=> StrictlyIncreasing(WallClock(AnswerOf(i).history))

\* a processed price file from zone-aware bars at increasing instants whose
\* wall-clock times repeat
C9_Witness ==
    \E i \in Universe :
        /\ PricesProcessed(i)
        /\ AnswerOf(i).history.tz
        /\ StrictlyIncreasing(AnswerOf(i).history.index)
        /\ Len(fs[ProcessedData(i)].df.index) = 2
        /\ fs[ProcessedData(i)].df.index[1] = fs[ProcessedData(i)].df.index[2]

(* ----------------------------------------------------------------- C10 *)
AllowList == SeqToSet(KEYS_TO_KEEP)

\* C10: the processed descriptive record has exactly the 17 keys of
\* KEYS_TO_KEEP, each with the raw document's value when the document has
\* the key and null when it has not, for any raw document, the empty one
\* included; no other key is in any processed descriptive file.
C10_InfoProjection ==
    /\ Cardinality(AllowList) = 17
    /\ \A i \in Universe :
          (Finished(i) /\ Written(ProcessedInfos(i))) =>
              LET doc == fs[ProcessedInfos(i)].doc
                  raw == AnswerOf(i).info
              IN  /\ DOMAIN doc = AllowList
                  /\ \A k \in AllowList :
                        doc[k] = IF k \in DOMAIN raw THEN raw[k] ELSE None
    /\ \A p \in AllPaths :
          (p.dir = "processed" /\ p.suffix = "_infos.parquet" /\ Exists(p)) =>
              DOMAIN fs[p].doc \subseteq AllowList

\* a processed descriptive file from a raw document with a listed key, an
\* unlisted key and listed keys missing
C10_Witness ==
    \E i \in Universe :
        /\ Finished(i)
        /\ Written(ProcessedInfos(i))
        /\ DOMAIN AnswerOf(i).info = {"symbol", "zip"}
        /\ fs[ProcessedInfos(i)].doc["symbol"] = "v1"
        /\ fs[ProcessedInfos(i)].doc["currency"] = None

(* ----------------------------------------------------------------- C11 *)
\* position of an event in the pipeline of one instrument
Rank(e) ==
    IF e.op \in {"history", "info", "dividends"} THEN 1
    ELSE IF e.op = "build_interim" THEN 3
    ELSE IF e.op = "transform" THEN 5
    ELSE IF e.op = "write" /\ e.target.dir = "raw" THEN 2
    ELSE IF e.op = "write" /\ e.target.dir = "interim" THEN 4
    ELSE IF e.op = "write" /\ e.target.dir = "processed" THEN 6
    ELSE 0

\* the events of the current run that belong to instrument i, in order
EventSeqOf(i) ==
    SelectSeq(events,
              LAMBDA e : e.target.name \in {tickers_map[i].name,
                                            tickers_map[i].ticker})

\* the write of the file succeeded before event l of the sequence
WrittenBefore(ev, path, l) ==
    \E k \in 1..(l - 1) :
        ev[k].op = "write" /\ ev[k].target = path /\ ev[k].ok

\* C11: stage ordering per instrument.  Within a run the events of one
\* instrument occur only in the order extract, raw write, interim
\* transform, interim write, processed transform, processed write, no
\* stage being entered unless the one before it succeeded; an interim file
\* is never written before the instrument's raw files in that run, and a
\* processed file never before its interim files of the same facet.
C11_StageOrdering ==
    \A i \in Universe :
        LET n  == tickers_map[i].name
            ev == EventSeqOf(i)
        IN
        \A l \in 1..Len(ev) :
            /\ l > 1 => Rank(ev[l - 1]) <= Rank(ev[l])
            /\ Rank(ev[l]) > 1 =>
                  \E k \in 1..(l - 1) :
                      ev[k].ok /\ Rank(ev[k]) = Rank(ev[l]) - 1
            /\ Rank(ev[l]) = 4 =>
                  /\ WrittenBefore(ev, Path("raw", n, "_raw_prices.csv"), l)
                  /\ WrittenBefore(ev, Path("raw", n, "_raw_infos.json"), l)
            /\ Rank(ev[l]) = 6 =>
                  /\ WrittenBefore(ev, Path("interim", n,
                                            "_prices_interim.csv"), l)
                  /\ WrittenBefore(ev, Path("interim", n,
                                            "_infos_interim.json"), l)
            /\ ev[l].target = Path("processed", n, "_dividends.parquet") =>
                  WrittenBefore(ev, Path("interim", n,
                                         "_dividends_interim.csv"), l)

\* an instrument went through the six stages, dividends included
C11_Witness ==
    \E i \in Universe :
        /\ Finished(i)
        /\ {Rank(events[k]) : k \in EventsOf(i)} = 1..6
        /\ Written(Path("processed", tickers_map[i].name, "_dividends.parquet"))

(* ----------------------------------------------------------------- C12 *)
\* text t ends with text s
EndsWith(t, s) ==
    /\ Len(s) <= Len(t)
    /\ \A k \in 1..Len(s) : t[Len(t) - Len(s) + k] = s[k]

\* no two artifacts share a file: the names of two paths of one directory
\* differ as text, and no suffix of a tier ends another suffix of that tier
\* (were "_x.csv" and "_raw_x.csv" both suffixes, the names "A_raw" and "A"
\* would share a file)
PathsDisjoint ==
    /\ \A p, q \in AllPaths :
          (p # q /\ p.dir = q.dir) => FileName(p) # FileName(q)
    /\ \A x, y \in Suffixes :
          (x # y /\ x[1] = y[1]) => ~EndsWith(Chars(x[2]), Chars(y[2]))

\* a step changes only files of the instrument being processed, and only
\* files it tried to write
WritesOwnFiles ==
    \A p \in AllPaths :
        fs'[p] # fs[p] =>
            /\ pc \in {"save_raw", "save_interim", "load_processed"}
            /\ p.name = name_
            /\ \E k \in (Len(events) + 1)..Len(events') :
                  events'[k].op = "write" /\ events'[k].target = p

\* C12: cross-instrument non-interference.  The artifact paths of two
\* distinct logical names are disjoint, and every step of a run, whether
\* the instrument succeeds, is skipped or fails at any stage, leaves every
\* artifact of every other instrument unchanged.
C12_NonInterference == PathsDisjoint /\ [][WritesOwnFiles]_vars

\* an instrument failed after an earlier one had its processed files
\* written, which are still there at the end of the run
C12_Witness ==
    /\ pc = "done"
    /\ \E i, j \in Universe :
          /\ j < i
          /\ Failed(i)
          /\ \E p \in TierPaths("raw", tickers_map[i].name) : fs[p].st = "partial"
          /\ Logged("PROCESSED", tickers_map[j].name)
          /\ \A p \in PriceInfoPaths(tickers_map[j].name) :
                Written(p) /\ Exists(p)

(* ----------------------------------------------------------------- C13 *)
\* number of lines of the run's log with this tag for this instrument
Count(tag, name) ==
    Cardinality({k \in 1..Len(log) : log[k] = [tag |-> tag, name |-> name]})

\* the outcomes the log gives for an instrument
Outcomes(name) == {t \in {"PROCESSED", "WARN", "ERROR"} : Logged(t, name)}

\* the banners: the start line is the first line of the log, before any
\* instrument, and the end line is the last one of a run that got past
\* universe resolution
Banners ==
    /\ log[1].tag = "START"
    /\ \A k \in 2..Len(log) : log[k].tag # "START"
    /\ \A k \in 1..Len(log) :
          log[k].tag = "END" => (k = Len(log) /\ pc = "done")
    /\ (pc = "done" => log[Len(log)].tag = "END")

\* C13 as claimed: start line before any instrument, end line after the
\* last one, and for each instrument exactly one outcome among success,
\* skipped-empty (warning) and failed (error).
C13_Original ==
    (pc \notin {"idle", "raised"}) =>
        /\ Banners
        /\ \A i \in Universe :
              Finished(i) => Cardinality(Outcomes(tickers_map[i].name)) = 1

\* C13 amended: start line before any instrument, end line after the last
\* one, and every instrument ends as exactly one of success (processed
\* line, no warning, no error), skipped-empty (warning, no error) and
\* failed (one error line); the error line of a failed instrument follows
\* a warning exactly when its price history was empty and the write of its
\* raw descriptive file raised.
C13_Amended ==
    (pc \notin {"idle", "raised"}) =>
        /\ Banners
        /\ \A i \in Universe :
              Finished(i) =>
                LET n == tickers_map[i].name
                    o == Outcomes(n)
                IN  /\ o \in {{"PROCESSED"}, {"WARN"}, {"ERROR"},
                              {"WARN", "ERROR"}}
                    /\ \A t \in o : Count(t, n) = 1
                    /\ ("ERROR" \in o <=> Failed(i))
                    /\ ("WARN" \in o <=>
                          (Extracted(i) /\ IsEmpty(AnswerOf(i).history)))
                    /\ (o = {"WARN", "ERROR"} =>
                          /\ WriteTried(Path("raw", n, "_raw_infos.json"))
                          /\ ~Written(Path("raw", n, "_raw_infos.json")))

\* a finished run with a success, a skipped instrument and a failed one
C13_Witness ==
    /\ pc = "done"
    /\ \E i, j, k \in Universe :
          /\ Outcomes(tickers_map[i].name) = {"PROCESSED"}
          /\ Outcomes(tickers_map[j].name) = {"WARN"}
          /\ Outcomes(tickers_map[k].name) = {"ERROR"}

(* ----------------------------------------------------------------- C14 *)
Tiers == {"raw", "interim", "processed"}

Facets == {"price", "descriptive", "distribution"}

\* the facet a file of a tier holds
FacetOf(suffix) ==
    IF suffix \in {"_raw_prices.csv", "_prices_interim.csv", "_data.parquet"}
    THEN "price"
    ELSE IF suffix \in {"_raw_infos.json", "_infos_interim.json",
                        "_infos.parquet"}
    THEN "descriptive"
    ELSE "distribution"

\* the files the pipeline has for a facet of an instrument at a tier
FacetPaths(tier, facet, name) ==
    {p \in AllPaths :
        p.dir = tier /\ p.name = name /\ FacetOf(p.suffix) = facet}

\* the run wrote an artifact of the facet at the tier, and it is on disk
Materialized(tier, facet, name) ==
    \E p \in FacetPaths(tier, facet, name) : Written(p) /\ Exists(p)

Succeeded(i) == Finished(i) /\ Logged("PROCESSED", tickers_map[i].name)

\* C14 as claimed: after a run in which an instrument is processed
\* successfully with non-empty prices and non-empty distributions, one
\* artifact exists for each facet at each tier; the distribution facet is
\* left out of a tier only when the distribution series is empty.
C14_Original ==
    pc = "done" =>
        \A i \in Universe :
            Succeeded(i) =>
                \A tier \in Tiers :
                    /\ Materialized(tier, "price", tickers_map[i].name)
                    /\ Materialized(tier, "descriptive", tickers_map[i].name)
                    /\ (~Materialized(tier, "distribution",
                                      tickers_map[i].name)
                           => ~HasDividends(i))

\* C14 amended: after such a run one artifact exists for the price and the
\* descriptive facet at each of the three tiers and for the distribution
\* facet at the interim and the processed tier; the raw tier never holds a
\* distribution artifact, and the interim and processed tiers leave the
\* distribution out exactly when the series is empty.
C14_Amended ==
    /\ \A k \in 1..Len(events) :
          (events[k].op = "write" /\ events[k].target.dir = "raw") =>
              FacetOf(events[k].target.suffix) # "distribution"
    /\ pc = "done" =>
          \A i \in Universe :
              Succeeded(i) =>
                  LET n == tickers_map[i].name IN
                  /\ \A tier \in Tiers :
                        /\ Materialized(tier, "price", n)
                        /\ Materialized(tier, "descriptive", n)
                  /\ FacetPaths("raw", "distribution", n) = {}
                  /\ \A tier \in {"interim", "processed"} :
                        /\ Materialized(tier, "distribution", n)
                              <=> HasDividends(i)
                        /\ \A p \in FacetPaths(tier, "distribution", n) :
                              WriteTried(p) <=> HasDividends(i)

\* an instrument with prices and dividends was processed to the end and
\* has its eight artifacts on disk
C14_Witness ==
    /\ pc = "done"
    /\ \E i \in Universe :
          /\ Succeeded(i)
          /\ HasPrices(i) /\ HasDividends(i)
          /\ \A p \in TierPaths("raw", tickers_map[i].name)
                      \cup TierPaths("interim", tickers_map[i].name)
                      \cup TierPaths("processed", tickers_map[i].name) :
                Written(p) /\ Exists(p)

(* ----------------------------------------------------------------- C15 *)
\* what build_interim_from_raw makes of the answer the provider gives to
\* instrument i
InterimOf(i) ==
    build_interim_from_raw(AnswerOf(i).history, AnswerOf(i).info,
                           AnswerOf(i).dividends)

\* C15: the interim price transform is a faithful copy.  For every raw
\* price series (time-indexed, or empty) build_interim_from_raw raises
\* nothing and returns the same rows in the same order, the same columns
\* and the same values, the timestamps being the provider's wall-clock
\* times without timezone; an empty input comes back as it is; the
\* caller's series is not modified, and the orchestrator hands this result
\* to the interim sink.
C15_InterimFaithful ==
    \A i \in Universe :
        LET h == AnswerOf(i).history
            r == InterimOf(i)
        IN  (pc # "idle" /\ Extracted(i) /\ (h.isdt \/ IsEmpty(h))) =>
              /\ r.exc = None
              /\ r.source = h
              /\ r.hist.columns = h.columns
              /\ r.hist.rows = h.rows
              /\ Len(r.hist.index) = Len(h.index)
              /\ (IsEmpty(h) => r.hist = h)
              /\ (~IsEmpty(h) => ~r.hist.tz /\ r.hist.index = WallClock(h))
              /\ (i = idx /\ pc \in {"save_interim", "transform",
                                     "load_processed"}) =>
                    /\ df_hist_interim = r.hist
                    /\ df_history = h

\* the interim transform has acted on a series of two or more bars in the
\* provider's zone
C15_Witness ==
    /\ pc = "save_interim"
    /\ df_history.tz
    /\ Len(df_history.index) >= 2
    /\ df_hist_interim.index = WallClock(df_history)
    /\ df_hist_interim.index # df_history.index

(* ----------------------------------------------------------------- C16 *)
\* position in the universe of the instrument an event belongs to (0 for
\* universe resolution)
InstrumentOf(e) ==
    IF \E i \in Universe :
          e.target.name \in {tickers_map[i].name, tickers_map[i].ticker}
    THEN CHOOSE i \in Universe :
          e.target.name \in {tickers_map[i].name, tickers_map[i].ticker}
    ELSE 0

\* C16: strictly sequential execution.  The instruments are processed one
\* at a time in the universe's order: every provider call and every write
\* of an instrument comes before the first provider call of the next one,
\* events of different instruments never interleave, nothing is done for
\* an instrument the loop has not reached, and each artifact path is
\* written at most once per run.
C16_Sequential ==
    /\ \A k \in 1..(Len(events) - 1) :
          InstrumentOf(events[k]) <= InstrumentOf(events[k + 1])
    /\ \A k \in 1..Len(events) :
          /\ InstrumentOf(events[k]) <= idx
          /\ (k > 1 => InstrumentOf(events[k]) >= 1)
    /\ \A i \in Universe :
          Finished(i) =>
              (\E k \in EventsOf(i) : events[k].op = "history")
    /\ LET w == SelectSeq(events, LAMBDA e : e.op = "write")
       IN  Cardinality({w[k].target : k \in 1..Len(w)}) = Len(w)

\* a finished run wrote files of three instruments or more, one after the
\* other
C16_Witness ==
    /\ pc = "done"
    /\ Cardinality({InstrumentOf(events[k]) :
                        k \in {j \in 1..Len(events) :
                                  events[j].op = "write"}}) >= 3

(* ----------------------------------------------------------------- C17 *)
\* the extraction of instrument i is over
ExtractDone(i) == Finished(i) \/ (i = idx /\ pc \notin {"loop", "extract"})

\* the provider calls the run made for instrument i, in order
CallsOf(i) ==
    SelectSeq(events,
              LAMBDA e : /\ e.op \in {"history", "info", "dividends"}
                         /\ e.target.name = tickers_map[i].ticker)

IsPrefix(s, t) == Len(s) <= Len(t) /\ \A k \in 1..Len(s) : s[k] = t[k]

\* C17: no retry in extraction.  Each instrument is extracted once per
\* run: history, then info, then dividends, each at most once, the
\* history call carrying the run's period; when one of the calls raises
\* it is the instrument's last event of the run: the later facets are not
\* fetched, the error is logged at the per-instrument boundary, and no
\* file of any tier is written for the instrument.
C17_NoRetry ==
    \A i \in Universe :
        ExtractDone(i) =>
            LET c == CallsOf(i)
                ops == [k \in 1..Len(c) |-> c[k].op]
            IN  /\ Len(c) >= 1
                /\ IsPrefix(ops, << "history", "info", "dividends" >>)
                /\ \A k \in 1..Len(c) : c[k].target.suffix = period
                /\ \A k \in 1..Len(c) : ~c[k].ok => k = Len(c)
                /\ (Len(c) < 3 => ~c[Len(c)].ok)
                /\ (~Extracted(i) <=> ~c[Len(c)].ok)
                /\ ~c[Len(c)].ok =>
                      /\ \A k \in EventsOf(i) :
                            events[k].op \in {"history", "info", "dividends"}
                      /\ Logged("ERROR", tickers_map[i].name)
                      /\ Outcomes(tickers_map[i].name) = {"ERROR"}
                      /\ \A p \in AllPaths :
                            p.name = tickers_map[i].name =>
                                ~WriteTried(p) /\ fs[p] = snapshot.fs[p]

\* a run with the period "max" in which the info call of an instrument
\* raised after its history call had returned
C17_Witness ==
    /\ pc = "done"
    /\ period = "max"
    /\ \E i \in Universe :
          /\ AnswerOf(i).raiseAt = "info"
          /\ Len(CallsOf(i)) = 2
          /\ Logged("ERROR", tickers_map[i].name)

(* ----------------------------------------------------------------- C18 *)
\* C18: the empty-price check of transform_history_and_info is defensive.
\* Given an empty price series the function raises ValueError and returns
\* nothing; run_etl_for_universe never calls it with an empty series,
\* since an instrument without prices leaves the loop body right after
\* the raw write: such an instrument has no transform event, and when it
\* is reported as failed it is the raw descriptive write that raised.
C18_DefensiveCheck ==
    /\ (pc = "transform" => ~IsEmpty(df_hist_interim))
    /\ \A i \in Universe :
          (pc # "idle" /\ Extracted(i) /\ IsEmpty(AnswerOf(i).history)) =>
              LET r == transform_history_and_info(AnswerOf(i).history,
                                                  AnswerOf(i).info)
                  n == tickers_map[i].name
              IN  /\ r.exc = "ValueError"
                  /\ r.clean = NoneDF /\ r.info = EmptyDict
                  /\ \A k \in EventsOf(i) :
                        events[k].op \notin {"build_interim", "transform"}
                  /\ (Finished(i) /\ Logged("ERROR", n)) =>
                        /\ WriteTried(Path("raw", n, "_raw_infos.json"))
                        /\ ~Written(Path("raw", n, "_raw_infos.json"))
    /\ \A k \in 1..Len(events) :
          (pc # "idle" /\ events[k].op = "transform") =>
              /\ InstrumentOf(events[k]) \in Universe
              /\ HasPrices(InstrumentOf(events[k]))

\* a finished run skipped an instrument without prices and ran the
\* processed transform for another one
C18_Witness ==
    /\ pc = "done"
    /\ \E i, j \in Universe :
          /\ Extracted(i) /\ IsEmpty(AnswerOf(i).history)
          /\ Outcomes(tickers_map[i].name) = {"WARN"}
          /\ \E k \in EventsOf(j) : events[k].op = "transform" /\ events[k].ok

(* ----------------------------------------------------------------- C19 *)
\* C19: the processed writes of one instrument are all-or-nothing within
\* a run.  Whenever the processed price file of an instrument is written
\* in a run, its processed descriptive file (and its processed dividends
\* file when it has dividends) is written in that run too and the
\* instrument is reported as success; an instrument reported as failed has
\* no processed file written in that run.
C19_AllOrNothing ==
    \A i \in Universe :
        Finished(i) =>
            LET n == tickers_map[i].name IN
            /\ Written(Path("processed", n, "_data.parquet")) =>
                  /\ Written(Path("processed", n, "_infos.parquet"))
                  /\ (HasDividends(i) =>
                        Written(Path("processed", n, "_dividends.parquet")))
                  /\ Logged("PROCESSED", n)
            /\ Logged("ERROR", n) =>
                  \A p \in TierPaths("processed", n) : ~Written(p)

(* ------------------------------ scripts/pipeline_etl_finance.py *)
\* Path(config_path).is_absolute()
IsAbsolute(path) == path \in {"/etc/abc.json"}

\* the configuration files under PROJECT_ROOT when the working directory
\* is another directory
RootFiles == {"one.json"}

\* p.exists() once a relative path is resolved against PROJECT_ROOT
finance_exists(cp, at_root) ==
    IF IsAbsolute(cp) \/ at_root THEN PathExists(cp)
    ELSE cp \in RootFiles

\* mutant: every path, absolute ones included, is looked up under
\* PROJECT_ROOT
finance_load_universe_AlwaysJoin(cp, at_root) ==
    IF cp # None /\ cp # ""
       /\ (IF at_root /\ ~IsAbsolute(cp)
           THEN PathExists(cp)
           ELSE cp \in RootFiles) THEN
        LET doc == JsonLoad(cp) IN
        IF ~doc.ok THEN [exc |-> "JSONDecodeError", value |-> <<>>]
        ELSE IF \E i \in 1..Len(doc.data) :
                    "ticker" \notin DOMAIN doc.data[i].product
             THEN [exc |-> "KeyError", value |-> <<>>]
        ELSE [exc |-> None,
              value |-> [i \in 1..Len(doc.data) |->
                            [name   |-> doc.data[i].name,
                             ticker |-> doc.data[i].product.ticker]]]
    ELSE [exc |-> None, value |-> DefaultUniverse]

\* load_universe of pipeline_etl_finance.py
finance_load_universe(cp, at_root) ==
    IF cp # None /\ cp # ""
       /\ finance_exists(cp, at_root) THEN
        LET doc == JsonLoad(cp) IN
        IF ~doc.ok THEN [exc |-> "JSONDecodeError", value |-> <<>>]
        ELSE IF \E i \in 1..Len(doc.data) :
                    "ticker" \notin DOMAIN doc.data[i].product
             THEN [exc |-> "KeyError", value |-> <<>>]
        ELSE [exc |-> None,
              value |-> [i \in 1..Len(doc.data) |->
                            [name   |-> doc.data[i].name,
                             ticker |-> doc.data[i].product.ticker]]]
    ELSE [exc |-> None, value |-> DefaultUniverse]

\* path.write_text(json.dumps(doc)): json.dumps raises TypeError before
\* the file is opened
WriteText(st, faults, path, doc) ==
    IF st.exc = None /\ ~Serializable(doc) THEN [st EXCEPT !.exc = "TypeError"]
    ELSE WriteFile(st, faults, path, DocFile(doc))

\* save_raw of pipeline_etl_finance.py
finance_save_raw(st, faults, name, df_hist, info) ==
    LET s1 == IF ~IsEmpty(df_hist)
              THEN Emit(WriteFile(st, faults,
                                  Path("raw", name, "_raw_prices.csv"),
                                  FrameFile(df_hist)), "RAW_PRICES", name)
              ELSE Emit(st, "WARN", name)
        s2 == WriteText(s1, faults, Path("raw", name, "_raw_infos.json"), info)
    IN  Emit(s2, "RAW_INFOS", name)

\* save_interim of pipeline_etl_finance.py
finance_save_interim(st, faults, name, df_hist, df_info, df_div) ==
    LET s1 == IF ~IsEmpty(df_hist)
              THEN Emit(WriteFile(st, faults,
                                  Path("interim", name, "_prices_interim.csv"),
                                  FrameFile(df_hist)), "INTERIM_PRICES", name)
              ELSE st
        s2 == Emit(WriteText(s1, faults,
                             Path("interim", name, "_infos_interim.json"),
                             df_info), "INTERIM_INFOS", name)
    IN  IF df_div.kind # "none" /\ ~IsEmpty(df_div)
        THEN Emit(WriteFile(s2, faults,
                            Path("interim", name, "_dividends_interim.csv"),
                            FrameFile(df_div)), "INTERIM_DIVS", name)
        ELSE s2

\* extract_asset of pipeline_etl_finance.py: the calls up to the one that
\* raises
finance_calls(a, ticker, per) ==
    IF a.raiseAt = "history" THEN << CallFor("history", ticker, per, FALSE) >>
    ELSE IF a.raiseAt = "info"
    THEN << CallFor("history", ticker, per, TRUE),
            CallFor("info", ticker, per, FALSE) >>
    ELSE << CallFor("history", ticker, per, TRUE),
            CallFor("info", ticker, per, TRUE),
            CallFor("dividends", ticker, per, a.raiseAt = "none") >>

\* except Exception as e: print the failure
finance_except(st, name) ==
    [st EXCEPT !.exc = None,
               !.log = Append(@, [tag |-> "ERROR", name |-> name])]

\* one iteration of the for loop of run_etl_for_universe in
\* pipeline_etl_finance.py
finance_instrument(st, e, per, name, ticker) ==
    LET a  == e.answers[ticker]
        s0 == [st EXCEPT
                 !.log = Append(@, [tag |-> "PROCESSING", name |-> name]),
                 !.events = @ \o finance_calls(a, ticker, per)]
        s1 == finance_save_raw(s0, e.faults, name, a.history, a.info)
        r  == build_interim_from_raw(a.history, a.info, a.dividends)
        s2 == [s1 EXCEPT
                 !.events = Append(@, StageEventFor("build_interim", name,
                                                    r.exc = None))]
        s3 == finance_save_interim(s2, e.faults, name, r.hist, r.info, r.div)
        t  == transform_history_and_info(r.hist, a.info)
        d  == transform_dividends(IF r.div.kind # "none" THEN r.div
                                  ELSE EmptyDF)
        x  == IF t.exc # None THEN t.exc ELSE d.exc
        s4 == [s3 EXCEPT
                 !.events = Append(@, StageEventFor("transform", name,
                                                    x = None))]
        s5 == load_processed(s4, e.faults, name, t.clean, t.info,
                             IF t.exc # None THEN NoneDF ELSE d.value)
    IN  IF a.raiseAt # "none" THEN finance_except(s0, name)
        ELSE IF s1.exc # None THEN finance_except(s1, name)
        ELSE IF IsEmpty(a.history) THEN s1
        ELSE IF r.exc # None THEN finance_except(s2, name)
        ELSE IF s3.exc # None THEN finance_except(s3, name)
        ELSE IF x # None THEN finance_except(s4, name)
        ELSE IF s5.exc # None THEN finance_except(s5, name)
        ELSE s5

RECURSIVE finance_loop(_, _, _, _, _)
\* for name, ticker_symbol in tickers_map.items(): from entry i on
finance_loop(st, e, per, universe, i) ==
    IF i > Len(universe) THEN st
    ELSE finance_loop(finance_instrument(st, e, per, universe[i].name,
                                         universe[i].ticker),
                      e, per, universe, i + 1)

\* run_etl_for_universe of pipeline_etl_finance.py, from the files fs0
finance_run(cp, per, e, fs0) ==
    LET u   == finance_load_universe(cp, e.at_root)
        st0 == [fs |-> fs0,
                log |-> << [tag |-> "START", name |-> ""] >>,
                events |-> << [op |-> "load_universe",
                               target |-> Path("config", cp, ""),
                               ok |-> TRUE] >>,
                exc |-> None]
        s   == finance_loop(st0, e, per, u.value, 1)
    IN  IF u.exc # None
        THEN [escaped |-> u.exc, tickers_map |-> <<>>, fs |-> fs0,
              log |-> st0.log, events |-> st0.events]
        ELSE [escaped |-> None, tickers_map |-> u.value, fs |-> s.fs,
              log |-> Append(s.log, [tag |-> "END", name |-> ""]),
              events |-> s.events]

(* ----------------------------------------------------------------- C20 *)
\* the run of ETL.py is over
RunOver == pc \in {"done", "raised"}

\* what pipeline_etl_finance.py does with the arguments, the provider
\* answers and the files the run of ETL.py started from
FinanceRun == finance_run(config_path, period, env, snapshot.fs)

\* C20 as claimed: for every config_path, absent, absolute or relative,
\* whatever the working directory, the two implementations resolve the
\* same universe and perform the same sequence of provider calls,
\* artifact writes and logged outcomes.
C20_Original ==
    RunOver =>
        LET f == FinanceRun IN
        /\ f.tickers_map = tickers_map
        /\ f.escaped = escaped
        /\ f.events = events
        /\ f.log = log

\* a write ETL.py starts and pipeline_etl_finance.py does not: the JSON
\* file of a descriptive document that json cannot encode
TruncatingWrite(e) ==
    /\ e.op = "write"
    /\ e.target.suffix \in {"_raw_infos.json", "_infos_interim.json"}
    /\ ~Serializable(AnswerOf(InstrumentOf(e)).info)

\* C20 amended: for a config_path that is absent, empty or absolute, and
\* for a relative one when the working directory is the project root, the
\* two implementations resolve the same universe, make the same provider
\* calls, log the same outcomes and write the same files with the same
\* contents, except that for a descriptive document json cannot encode
\* ETL.py opens (and truncates) the JSON file before it fails where
\* pipeline_etl_finance.py fails before touching it.
C20_Amended ==
    (RunOver /\ (config_path \in {None, ""} \/ IsAbsolute(config_path)
                    \/ env.at_root)) =>
        LET f == FinanceRun
            truncated == {events[k].target :
                             k \in {j \in 1..Len(events) :
                                       TruncatingWrite(events[j])}}
        IN  /\ f.tickers_map = tickers_map
            /\ f.escaped = escaped
            /\ f.log = log
            /\ f.events = SelectSeq(events, LAMBDA e : ~TruncatingWrite(e))
            /\ \A p \in truncated :
                  /\ f.fs[p] = snapshot.fs[p]
                  /\ fs[p] \in {PartialFile, snapshot.fs[p]}
            /\ [p \in AllPaths \ truncated |-> f.fs[p]]
                  = [p \in AllPaths \ truncated |-> fs[p]]

\* both implementations ran over the universe of an absolute path from a
\* working directory that is not the project root, with a failed and a
\* processed instrument
C20_Witness ==
    /\ pc = "done"
    /\ ~env.at_root
    /\ IsAbsolute(config_path)
    /\ FinanceRun.events = events
    /\ \E i, j \in Universe :
          /\ Outcomes(tickers_map[i].name) = {"ERROR"}
          /\ Outcomes(tickers_map[j].name) = {"PROCESSED"}

(* ------------------------------------- scripts/convert_to_parquet.py *)
\* number of times the convert script is run in one behaviour
MaxConverts == 2

\* c.strip().lower() on the column labels the pipeline and the provider use
Lower(c) ==
    IF c = "Open" THEN "open"
    ELSE IF c = "High" THEN "high"
    ELSE IF c = "Low" THEN "low"
    ELSE IF c = "Close" THEN "close"
    ELSE IF c = "Volume" THEN "volume"
    ELSE IF c = "Date" THEN "date"
    ELSE IF c = "Dividends" THEN "dividends"
    ELSE IF c = "Stock Splits" THEN "stock splits"
    ELSE IF c = "Adj Close" THEN "adj close"
    ELSE c

\* df.reset_index(): the index becomes the first column, named after the
\* index ("index" when it has no name), and a RangeIndex takes its place
ResetIndex(df) ==
    [df EXCEPT
        !.columns = << IF df.iname = None THEN "index" ELSE df.iname >> \o @,
        !.rows = [i \in 1..Len(df.index) |->
                     << <<"ts", df.index[i]>> >> \o df.rows[i]],
        !.index = [i \in 1..Len(df.index) |-> i - 1],
        !.isdt = FALSE, !.tz = FALSE, !.iname = None]

\* df.rename(columns={old: new}): labels that are not there are ignored
RenameColumn(df, old, new) ==
    [df EXCEPT !.columns = [j \in 1..Len(df.columns) |->
                              IF df.columns[j] = old THEN new
                              ELSE df.columns[j]]]

\* what to_parquet(file, index=False) stores and read_parquet gives back
WithoutIndex(df) ==
    [df EXCEPT !.index = [i \in 1..Len(df.index) |-> i - 1],
               !.isdt = FALSE, !.tz = FALSE, !.iname = None]

\* pd.to_datetime(errors="coerce") and dropna(subset=["date"]) keep every
\* row here: the date cells are timestamps of the index, never NaT.
\* the body of the for loop for one file: [exc, outcome, file]; exc is
\* the exception that leaves the loop (only read_parquet is in a try)
convert_file(file, faults, path) ==
    IF file.st # "file" \/ file.df.kind # "frame" THEN
        [exc |-> None, outcome |-> "unreadable", file |-> file]
    ELSE
    LET df0 == [file.df EXCEPT
                  !.columns = [j \in 1..Len(file.df.columns) |->
                                  Lower(file.df.columns[j])]]
        hasdate == "date" \in SeqToSet(df0.columns)
        df1 == IF hasdate THEN df0
               ELSE IF df0.isdt
               THEN RenameColumn(ResetIndex(df0), "index", "date")
               ELSE LET r == ResetIndex(df0)
                    IN  [r EXCEPT !.columns = << "date" >> \o Tail(@)]
    IN  IF ~hasdate /\ ~df0.isdt
           /\ ~(df0.iname # None /\ Lower(df0.iname) = "date")
        THEN [exc |-> None, outcome |-> "skipped", file |-> file]
        ELSE IF "date" \notin SeqToSet(df1.columns)
        THEN [exc |-> "KeyError", outcome |-> "raised", file |-> file]
        ELSE IF FaultAt(faults, path)
        THEN [exc |-> "OSError", outcome |-> "raised",
              file |-> IF Fault(path, "partial") \in faults
                       THEN PartialFile ELSE file]
        ELSE [exc |-> None, outcome |-> "converted",
              file |-> FrameFile(WithoutIndex(df1))]

\* DATA_DIR.glob("*_data.parquet")
DataFiles ==
    {p \in AllPaths : p.dir = "processed" /\ p.suffix = "_data.parquet"}

pipeline == << env, dirs, pc, runs, changes, config_path, period,
               tickers_map, idx, escaped, log, events, snapshot, locals >>

\* the script starts: converted = 0 and the glob of the directory
ConvertStart ==
    /\ pc \in {"idle", "done", "raised"}
    /\ conv.pc \in {"idle", "done", "raised"}
    /\ conv.runs < MaxConverts
    /\ conv' = [pc |-> "loop",
                todo |-> {p \in DataFiles : fs[p].st # "absent"},
                visited |-> {}, converted |-> 0, escaped |-> None,
                runs |-> conv.runs + 1, before |-> fs]
    /\ UNCHANGED << fs, pipeline >>

\* one iteration of the for loop, on the file the glob yields next
ConvertFile ==
    /\ conv.pc = "loop"
    /\ \E p \in conv.todo :
          LET r == convert_file(fs[p], env.faults, p) IN
          /\ fs' = [fs EXCEPT ![p] = r.file]
          /\ conv' = [conv EXCEPT
                        !.todo = @ \ {p},
                        !.visited = @ \cup {p},
                        !.converted = IF r.outcome = "converted"
                                      THEN @ + 1 ELSE @,
                        !.pc = IF r.exc # None THEN "raised" ELSE @,
                        !.escaped = r.exc]
    /\ UNCHANGED pipeline

\* the glob is exhausted: the script prints its counter
ConvertEnd ==
    /\ conv.pc = "loop"
    /\ conv.todo = {}
    /\ conv' = [conv EXCEPT !.pc = "done"]
    /\ UNCHANGED << fs, pipeline >>

\* a provider whose price index has no name
AUnnamed ==
    Answer("none",
           [MkFrame(FALSE, TRUE, <<1, 2>>, PriceColumns) EXCEPT
               !.iname = None],
           InfoOf({"symbol"}), DivFrame(FALSE, <<>>))

ConvertEnvs ==
    Envs \cup
    { Env(<< AUnnamed, AUnnamed, AEmpty,
             AUnnamed, AUnnamed, AUnnamed, AUnnamed, AUnnamed >>, {}, TRUE),
      Env(<< AUnnamed, AFull, AUnnamed,
             AFull, AFull, AFull, AFull, AFull >>, {}, TRUE) }

ConvertArgs == { <<"abc.json", "5y">>, <<None, "max">> }

InitConvert == env \in ConvertEnvs /\ InitRest

\* the pipeline runs, then the convert script runs on what it left
NextConvert ==
    \/ \E a \in ConvertArgs : conv.pc = "idle" /\ StartRun(a[1], a[2])
    \/ LoopHead
    \/ Extract
    \/ SaveRaw
    \/ BuildInterim
    \/ SaveInterim
    \/ Transform
    \/ LoadProcessed
    \/ EndRun
    \/ ConvertStart
    \/ ConvertFile
    \/ ConvertEnd

SpecConvert == InitConvert /\ [][NextConvert]_vars

(* ------------------------------------------------------------- C21 *)
\* a price file as load_processed writes it: the five capitalised columns
\* and a timestamp index named Date
PipelineProduced(file) ==
    /\ file.st = "file"
    /\ file.df.kind = "frame"
    /\ file.df.columns = << "Open", "High", "Low", "Close", "Volume" >>
    /\ file.df.isdt
    /\ file.df.iname = "Date"

\* lower-cased column names plus a date column, and no index
Normalized(file) ==
    /\ file.st = "file"
    /\ file.df.kind = "frame"
    /\ file.df.columns = << "date", "open", "high", "low", "close", "volume" >>
    /\ ~file.df.isdt
    /\ file.df.iname = None

\* C21: the convert script normalizes every price file the pipeline
\* produced: no exception leaves its loop, so a run of the script ends
\* having visited every *_data.parquet of the directory; each file that
\* load_processed wrote is then stored with lower-cased columns, a date
\* column and no index; and a second run of the script leaves every file
\* as the first left it.
C21_ConvertNormalizes ==
    /\ conv.pc # "raised"
    /\ conv.pc = "done" =>
          /\ conv.visited = {p \in DataFiles : conv.before[p].st # "absent"}
          /\ \A p \in DataFiles :
                PipelineProduced(conv.before[p]) => Normalized(fs[p])
          /\ conv.runs >= 2 => fs = conv.before

\* the loop leaves on the first file the pipeline wrote: a KeyError on
\* "date", with nothing rewritten
C21_KeyErrorEscapes ==
    /\ conv.pc = "raised"
    /\ conv.escaped = "KeyError"
    /\ \E p \in conv.visited : PipelineProduced(fs[p])
    /\ fs = conv.before

\* with an unnamed timestamp index the script does normalize, and its
\* second run changes nothing
C21_UnnamedIndexConverges ==
    /\ conv.pc = "done"
    /\ conv.runs = 2
    /\ conv.converted > 0
    /\ fs = conv.before
    /\ \A p \in conv.visited : Normalized(fs[p])

====
